---------------------------- MODULE Spec2Model ----------------------------
(***************************************************************************)
(* betteralign: layout model (gcSizes), optimal-order solver               *)
(* (optimalOrder), the per-struct engine (betteralign), the traversal and  *)
(* the apply step (run, applyToFile).                                      *)
(*                                                                         *)
(* Go slices are 0-based; sequences here are 1-based, so an entry k of     *)
(* "indexes" stands for the Go index k-1.                                  *)
(***************************************************************************)
EXTENDS Integers, Sequences, FiniteSets, TLC

VARIABLES
    sizes,          \* gcSizes{wordSize, maxAlign} of the pass
    goos,           \* the platform family the binary was built for
    flagApply,      \* -apply on the command line
    flagFix,        \* -fix on the command line
    fOptInMode,     \* -opt_in
    fApply,         \* the package-level fApply
    prog,           \* the parsed source files of the pass: file -> declarations
    pc,             \* where run() is
    ni,             \* index of the next node of the Preorder traversal
    strName,        \* run's strName
    strOptedIn,     \* run's strOptedIn
    decorated,      \* files for which dec.DecorateFile has run
    dst,            \* the decorated trees: file -> struct nodes (mutable)
    applyFixesFset, \* run's applyFixesFset: file -> pending buffer
    diagnostics,    \* what pass.Report received, in order
    last,           \* the locals of the latest betteralign call
    disk,           \* content of each target file
    fkind,          \* what each path is on disk
    tmp,            \* content of the temporary file of the write in progress
    todo,           \* files of applyFixesFset the range loop has not reached
    cur,            \* the file applyToFile is working on (0: none)
    apc,            \* where applyToFile is
    errs,           \* the "error applying fixes" lines on stderr
    ty,             \* the types.Type the layout functions are called on
    layout          \* what Alignof, Sizeof and ptrdata returned for ty

vars == <<sizes, goos, flagApply, flagFix, fOptInMode, fApply, prog, pc, ni,
          strName, strOptedIn, decorated, dst, applyFixesFset, diagnostics,
          last, disk, fkind, tmp, todo, cur, apc, errs, ty, layout>>

---------------------------------------------------------------------------
(* Bounds of the model *)

\* most fields (names) of a struct in the per-record specification
MaxFields == 3
\* most struct declarations of a pass in the traversal specification
MaxDecls == 2
\* most array and struct types nested around a type in the layout
\* specification
MaxDepth == 2
\* largest length of the arrays that are not huge in the layout specification
MaxLen == 2

---------------------------------------------------------------------------
(* go/types: the types the model's structs are built from *)

Basic(k) == [kind |-> "Basic", bkind |-> k, len |-> 0, elem |-> "", fields |-> <<>>]
Shape(k) == [kind |-> k, bkind |-> "", len |-> 0, elem |-> "", fields |-> <<>>]
Array(n, e) == [kind |-> "Array", bkind |-> "", len |-> n, elem |-> e, fields |-> <<>>]
Struct(fs) == [kind |-> "Struct", bkind |-> "", len |-> 0, elem |-> "", fields |-> fs]

\* T.Underlying() of the named and unnamed types used as field types
Underlying(T) ==
    CASE T = "bool"       -> Basic("Bool")
      [] T = "byte"       -> Basic("Uint8")
      [] T = "int16"      -> Basic("Int16")
      [] T = "int32"      -> Basic("Int32")
      [] T = "uint32"     -> Basic("Uint32")
      [] T = "int64"      -> Basic("Int64")
      [] T = "uint64"     -> Basic("Uint64")
      [] T = "float32"    -> Basic("Float32")
      [] T = "complex128" -> Basic("Complex128")
      [] T = "int"        -> Basic("Int")
      [] T = "uintptr"    -> Basic("Uintptr")
      [] T = "string"     -> Basic("String")
      [] T = "unsafe.Pointer" -> Basic("UnsafePointer")
      [] T = "*int"       -> Shape("Pointer")
      [] T = "func()"     -> Shape("Signature")
      [] T = "map"        -> Shape("Map")
      [] T = "chan"       -> Shape("Chan")
      [] T = "[]*string"  -> Shape("Slice")
      [] T = "any"        -> Shape("Interface")
      [] T = "[0]func()"  -> Array(0, "func()")
      [] T = "[0]byte"    -> Array(0, "byte")
      [] T = "[3]bool"    -> Array(3, "bool")
      [] T = "[2]uintptr" -> Array(2, "uintptr")
      [] T = "[2]*int"    -> Array(2, "*int")
      [] T = "s"          -> Struct(<<>>)
      [] T = "Good"       -> Struct(<<"int32", "byte", "byte">>)
      [] T = "pq"         -> Struct(<<"*int", "uintptr">>)
      [] T = "pq2"        -> Struct(<<"*int", "[2]uintptr">>)
      [] T = "[2]pq"      -> Array(2, "pq")
      [] T = "ZeroLast"   -> Struct(<<"int64", "[0]byte">>)
      [] T = "(int, error)" -> Shape("Tuple")

\* the basicSizes table; 0 where the table has no entry
basicSizes(k) ==
    CASE k \in {"Bool", "Int8", "Uint8"}             -> 1
      [] k \in {"Int16", "Uint16"}                   -> 2
      [] k \in {"Int32", "Uint32", "Float32"}        -> 4
      [] k \in {"Int64", "Uint64", "Float64", "Complex64"} -> 8
      [] k = "Complex128"                            -> 16
      [] OTHER                                       -> 0

\* int(k) < len(basicSizes): String, UnsafePointer and the untyped kinds
\* come after Complex128
InBasicSizes(k) == k \notin {"String", "UnsafePointer"}

\* align returns the smallest y >= x such that y % a == 0.
align(x, a) == LET y == x + a - 1 IN y - (y % a)

RECURSIVE Sizeof(_, _), Alignof(_, _), ptrdata(_, _)

\* "if a > max { max = a }"
Larger(a, max) == IF a > max THEN a ELSE max

\* Alignof, case *types.Struct: the largest field alignment, at least 1
\* (max[i]: the value of max after field i)
StructAlignof(fs, s) ==
    LET max[i \in 0..Len(fs)] ==
            IF i = 0 THEN 1 ELSE Larger(Alignof(fs[i], s), max[i - 1])
    IN  max[Len(fs)]

\* the tail of Alignof: a := s.Sizeof(T), clamped to 1..MaxAlign
ClampAlign(a, s) ==
    IF a < 1 THEN 1
    ELSE IF a > s.MaxAlign THEN s.MaxAlign
    ELSE a

\* Alignof after the type switch on t = T.Underlying()
AlignofUnderlying(T, t, s) ==
    CASE t.kind = "Array"  -> Alignof(t.elem, s)
      [] t.kind = "Struct" -> StructAlignof(t.fields, s)
      [] OTHER             -> ClampAlign(Sizeof(T, s), s)

Alignof(T, s) == AlignofUnderlying(T, Underlying(T), s)

\* one turn of the loop of Sizeof's struct case: field of alignment a and
\* size sz, isLast when i == nf-1
SizeofStep(prev, a, sz, isLast) ==
    [o   |-> align(prev.o, a)
             + (IF isLast /\ sz = 0 /\ prev.o # 0 THEN 1 ELSE sz),
     max |-> Larger(a, prev.max)]

\* "return align(o, max)"
SizeofEnd(st) == align(st.o, st.max)

\* "a, sz := s.Alignof(ft), s.Sizeof(ft)" for each field in declared order
FieldSizes(fs, s) ==
    [i \in 1..Len(fs) |-> [a |-> Alignof(fs[i], s), sz |-> Sizeof(fs[i], s)]]

\* the loop of Sizeof's struct case over the fields' alignments and sizes
\* (loop[i]: the values of o and max after field i)
SizeofFields(m) ==
    LET loop[i \in 0..Len(m)] ==
            IF i = 0 THEN [o |-> 0, max |-> 1]
            ELSE SizeofStep(loop[i - 1], m[i].a, m[i].sz, i = Len(m))
    IN  IF Len(m) = 0 THEN 0 ELSE SizeofEnd(loop[Len(m)])

\* Sizeof, case *types.Struct
StructSizeof(fs, s) == SizeofFields(FieldSizes(fs, s))

\* Sizeof, case *types.Basic (falls out of the switch to the catch-all)
BasicSizeof(k, s) ==
    IF InBasicSizes(k) /\ basicSizes(k) > 0 THEN basicSizes(k)
    ELSE IF k = "String" THEN s.WordSize * 2
    ELSE s.WordSize

\* Sizeof after the type switch on t = T.Underlying()
SizeofUnderlying(t, s) ==
    CASE t.kind = "Basic"     -> BasicSizeof(t.bkind, s)
      [] t.kind = "Array"     -> t.len * Sizeof(t.elem, s)
      [] t.kind = "Slice"     -> s.WordSize * 3
      [] t.kind = "Struct"    -> StructSizeof(t.fields, s)
      [] t.kind = "Interface" -> s.WordSize * 2
      [] OTHER                -> s.WordSize

Sizeof(T, s) == SizeofUnderlying(Underlying(T), s)

\* one turn of the loop of ptrdata's struct case: o = align(o, a); if fp != 0
\* then p = o + fp; o += sz
PtrdataStep(prev, a, sz, fp) ==
    [o |-> align(prev.o, a) + sz,
     p |-> IF fp # 0 THEN align(prev.o, a) + fp ELSE prev.p]

\* "a, sz := s.Alignof(ft), s.Sizeof(ft); fp := s.ptrdata(ft)" for each field
FieldPtrs(fs, s) ==
    [i \in 1..Len(fs) |->
        [a |-> Alignof(fs[i], s), sz |-> Sizeof(fs[i], s),
         fp |-> ptrdata(fs[i], s)]]

\* the loop of ptrdata's struct case (loop[i]: the values of o and p after
\* field i)
PtrdataFields(m) ==
    LET loop[i \in 0..Len(m)] ==
            IF i = 0 THEN [o |-> 0, p |-> 0]
            ELSE PtrdataStep(loop[i - 1], m[i].a, m[i].sz, m[i].fp)
    IN  IF Len(m) = 0 THEN 0 ELSE loop[Len(m)].p

\* ptrdata, case *types.Struct
StructPtrdata(fs, s) == PtrdataFields(FieldPtrs(fs, s))

\* ptrdata, case *types.Array: n elements of size z and pointer extent a
ArrayPtrdata(n, a, z) ==
    IF n = 0 THEN 0
    ELSE IF a = 0 THEN 0
    ELSE (n - 1) * z + a

\* the value standing for panic("impossible")
Panics == -1

\* ptrdata after the type switch on t = T.Underlying()
ptrdataUnderlying(t, s) ==
    CASE t.kind = "Basic" ->
           IF t.bkind \in {"String", "UnsafePointer"} THEN s.WordSize ELSE 0
      [] t.kind \in {"Chan", "Map", "Pointer", "Signature", "Slice"} ->
           s.WordSize
      [] t.kind = "Interface" -> 2 * s.WordSize
      [] t.kind = "Array" ->
           ArrayPtrdata(t.len, ptrdata(t.elem, s), Sizeof(t.elem, s))
      [] t.kind = "Struct" -> StructPtrdata(t.fields, s)
      [] OTHER -> Panics

ptrdata(T, s) == ptrdataUnderlying(Underlying(T), s)

---------------------------------------------------------------------------
(* int64 arithmetic, and the layout functions on types nested to any depth *)

\* An int64 is kept as the pair (top, low) that stands for top * 2^56 + low
\* modulo 2^64, low being a small integer of either sign: sums, differences
\* and products by a small factor are exact in this form.
I64(top, low) == [top |-> top, low |-> low]

\* a value that fits the low part
Small(x) == I64(0, x)

\* the top byte of an int64, read as a signed byte
Wrap8(t) == ((t + 128) % 256) - 128

\* x + y in int64
Add64(x, y) == I64(Wrap8(x.top + y.top), x.low + y.low)

\* x * z in int64, z small
Mul64(x, z) == I64(Wrap8(x.top * z), x.low * z)

\* the signed top byte of the value: a negative low part borrows from it
TopByte(x) == Wrap8(IF x.low < 0 THEN x.top - 1 ELSE x.top)

\* x < y as int64 values
Less64(x, y) ==
    \/ TopByte(x) < TopByte(y)
    \/ /\ TopByte(x) = TopByte(y)
       /\ \/ x.low >= 0 /\ y.low < 0
          \/ (x.low < 0 <=> y.low < 0) /\ x.low < y.low

\* x <= y as int64 values
Leq64(x, y) == ~Less64(y, x)

\* Sizeof, case *types.Array: "t.Len() * s.Sizeof(t.Elem())"
ArraySizeof64(n, z) == Mul64(n, z)

\* the claimed ptrdata of an array: (n-1) * Sizeof(Elem) + ptrdata(Elem) for
\* every element type
ArrayPtrdataAnyElem64(n, a, z) ==
    IF n = Small(0) THEN Small(0)
    ELSE Add64(Mul64(Add64(n, Small(-1)), z), Small(a))

\* ptrdata, case *types.Array, for a length n that may be huge: elements of
\* size z and pointer extent a
ArrayPtrdata64(n, a, z) ==
    IF n = Small(0) THEN Small(0)
    ELSE IF a = 0 THEN Small(0)
    ELSE Add64(Mul64(Add64(n, Small(-1)), z), Small(a))

\* Alignof, case *types.Struct, from the fields' alignments
AlignofFields(m) ==
    LET max[i \in 0..Len(m)] ==
            IF i = 0 THEN 1 ELSE Larger(m[i].a, max[i - 1])
    IN  max[Len(m)]

\* what the three layout functions return for one type; panics: ptrdata
\* ended in panic("impossible") and returned nothing
Layout(a, sz, fp, panics) == [a |-> a, sz |-> sz, fp |-> fp, panics |-> panics]

\* the layout of a type for which ptrdata returned p
LeafLayout(a, sz, p) ==
    Layout(a, Small(sz), Small(IF p = Panics THEN 0 ELSE p), p = Panics)

\* Alignof, Sizeof and ptrdata of the field type T
LayoutOfLeaf(T, s) == LeafLayout(Alignof(T, s), Sizeof(T, s), ptrdata(T, s))

\* Alignof, Sizeof and ptrdata of an array of n elements of layout e; ptrdata
\* of the element is not called for an array of length 0
LayoutOfArray(n, e) ==
    Layout(e.a,
           ArraySizeof64(n, e.sz.low),
           IF e.panics THEN Small(0) ELSE ArrayPtrdata64(n, e.fp.low, e.sz.low),
           n # Small(0) /\ e.panics)

\* the "a", "sz" and "fp" that the struct loops read for a field of layout e
AsField(e) == [a |-> e.a, sz |-> e.sz.low, fp |-> e.fp.low]

\* Alignof, Sizeof and ptrdata of a struct with fields of the measures m
StructLayout(m, panics) ==
    Layout(AlignofFields(m),
           Small(SizeofFields(m)),
           IF panics THEN Small(0) ELSE Small(PtrdataFields(m)),
           panics)

\* Alignof, Sizeof and ptrdata of the struct whose fields are those of
\* before, a field of layout e, and those of after
LayoutOfStruct(before, e, after, s) ==
    StructLayout(FieldPtrs(before, s) \o <<AsField(e)>> \o FieldPtrs(after, s),
                 e.panics)

\* a type: a field type of the model with arrays and structs nested around it,
\* innermost first
Nested(leaf, wraps) == [leaf |-> leaf, wraps |-> wraps]

\* [n]T around T
ArrayAround(n) ==
    [kind |-> "Array", len |-> n, before |-> <<>>, after |-> <<>>]

\* struct{before...; f T; after...} around T
StructAround(before, after) ==
    [kind |-> "Struct", len |-> Small(0), before |-> before, after |-> after]

NoType == Nested("", <<>>)

NoLayout == Layout(0, Small(0), Small(0), FALSE)

---------------------------------------------------------------------------
(* optimalOrder *)

\* elems[i] of optimalOrder for the struct with field types fs
Elems(fs, s) ==
    [i \in 1..Len(fs) |->
        [index   |-> i,
         alignof |-> Alignof(fs[i], s),
         sizeof  |-> Sizeof(fs[i], s),
         ptrdata |-> ptrdata(fs[i], s)]]

\* a comparator without the alignment key and the keys after it
LessZeroSizeOnly(ei, ej) ==
    LET zeroi == ei.sizeof = 0
        zeroj == ej.sizeof = 0
    IN  IF zeroi # zeroj THEN zeroi ELSE FALSE

\* a comparator without the trailing-bytes key
LessNoTrail(ei, ej) ==
    LET zeroi   == ei.sizeof = 0
        zeroj   == ej.sizeof = 0
        noptrsi == ei.ptrdata = 0
        noptrsj == ej.ptrdata = 0
    IN  IF zeroi # zeroj THEN zeroi
        ELSE IF ei.alignof # ej.alignof THEN ei.alignof > ej.alignof
        ELSE IF noptrsi # noptrsj THEN noptrsj
        ELSE IF ei.sizeof # ej.sizeof THEN ei.sizeof > ej.sizeof
        ELSE FALSE

\* a comparator that puts pointer-free elements before pointer-bearing ones
LessPointerFreeFirst(ei, ej) ==
    LET zeroi   == ei.sizeof = 0
        zeroj   == ej.sizeof = 0
        noptrsi == ei.ptrdata = 0
        noptrsj == ej.ptrdata = 0
        traili  == ei.sizeof - ei.ptrdata
        trailj  == ej.sizeof - ej.ptrdata
    IN  IF zeroi # zeroj THEN zeroi
        ELSE IF ei.alignof # ej.alignof THEN ei.alignof > ej.alignof
        ELSE IF noptrsi # noptrsj THEN noptrsi
        ELSE IF (~noptrsi) /\ traili # trailj THEN traili < trailj
        ELSE IF ei.sizeof # ej.sizeof THEN ei.sizeof > ej.sizeof
        ELSE FALSE

\* a comparator that also answers true for two elements equal on every key
LessTiesFirst(ei, ej) ==
    LET zeroi   == ei.sizeof = 0
        zeroj   == ej.sizeof = 0
        noptrsi == ei.ptrdata = 0
        noptrsj == ej.ptrdata = 0
        traili  == ei.sizeof - ei.ptrdata
        trailj  == ej.sizeof - ej.ptrdata
    IN  IF zeroi # zeroj THEN zeroi
        ELSE IF ei.alignof # ej.alignof THEN ei.alignof > ej.alignof
        ELSE IF noptrsi # noptrsj THEN noptrsj
        ELSE IF (~noptrsi) /\ traili # trailj THEN traili < trailj
        ELSE IF ei.sizeof # ej.sizeof THEN ei.sizeof > ej.sizeof
        ELSE TRUE

\* the less function handed to sort.SliceStable
Less(ei, ej) ==
    LET zeroi   == ei.sizeof = 0
        zeroj   == ej.sizeof = 0
        noptrsi == ei.ptrdata = 0
        noptrsj == ej.ptrdata = 0
        traili  == ei.sizeof - ei.ptrdata
        trailj  == ej.sizeof - ej.ptrdata
    IN  IF zeroi # zeroj THEN zeroi
        ELSE IF ei.alignof # ej.alignof THEN ei.alignof > ej.alignof
        ELSE IF noptrsi # noptrsj THEN noptrsj
        ELSE IF (~noptrsi) /\ traili # trailj THEN traili < trailj
        ELSE IF ei.sizeof # ej.sizeof THEN ei.sizeof > ej.sizeof
        ELSE FALSE

RECURSIVE InsertUnstable(_, _)

\* an insertion that also moves e past the elements it ties with
InsertUnstable(sorted, e) ==
    IF sorted = <<>> THEN <<e>>
    ELSE IF ~Less(sorted[Len(sorted)], e)
    THEN Append(InsertUnstable(SubSeq(sorted, 1, Len(sorted) - 1), e),
                sorted[Len(sorted)])
    ELSE Append(sorted, e)

RECURSIVE Insert(_, _), SliceStableLoop(_, _, _)

\* the inner loop of insertion sort: e moves left while Less(e, left neighbour)
Insert(sorted, e) ==
    IF sorted = <<>> THEN <<e>>
    ELSE IF Less(e, sorted[Len(sorted)])
    THEN Append(Insert(SubSeq(sorted, 1, Len(sorted) - 1), e),
                sorted[Len(sorted)])
    ELSE Append(sorted, e)

SliceStableLoop(elems, i, acc) ==
    IF i > Len(elems) THEN acc
    ELSE SliceStableLoop(elems, i + 1, Insert(acc, elems[i]))

\* sort.SliceStable(elems, less): below 20 elements it is one insertion sort
SliceStable(elems) == SliceStableLoop(elems, 1, <<>>)

\* the last loop of optimalOrder: fields[i] = str.Field(e.index) and
\* indexes[i] = e.index
Rebuild(fs, sorted) ==
    [optimal |-> [i \in 1..Len(fs) |-> fs[sorted[i].index]],
     indexes |-> [i \in 1..Len(fs) |-> sorted[i].index]]

\* optimalOrder(str, sizes): the rebuilt struct and the indexes
optimalOrder(fs, s) == Rebuild(fs, SliceStable(Elems(fs, s)))

---------------------------------------------------------------------------
(* The decorated syntax tree (dst) and its printed form *)

\* a comment: "//" or "/* */" form, containing a marker substring or not
Comment(isLine, hasMarker) == [line |-> isLine, marker |-> hasMarker]

\* a dst.Field: its Names (empty for an embedded field) and its type
Field(names, typ) == [names |-> names, typ |-> typ]

\* a dst.StructType: Fields.Decs.Opening and Fields.List
StructType(opening, list) == [opening |-> opening, list |-> list]

\* a GenDecl holding one struct type: its Tok, the name of Specs[0], its Doc
GenDecl(tok, name, doc, node) ==
    [tok |-> tok, name |-> name, doc |-> doc, node |-> node]

\* one line of a printed file
DeclLine(d) ==
    [k |-> "decl", tok |-> d.tok, name |-> d.name, doc |-> d.doc,
     opening |-> d.node.opening, names |-> <<>>, typ |-> ""]
FieldLine(f) ==
    [k |-> "field", tok |-> "", name |-> "", doc |-> <<>>,
     opening |-> <<>>, names |-> f.names, typ |-> f.typ]
EndLine ==
    [k |-> "end", tok |-> "", name |-> "", doc |-> <<>>,
     opening |-> <<>>, names |-> <<>>, typ |-> ""]

RECURSIVE Fprint(_), ParseLoop(_, _, _)

PrintDecl(d) ==
    <<DeclLine(d)>> \o [i \in 1..Len(d.node.list) |-> FieldLine(d.node.list[i])]
                    \o <<EndLine>>

\* decorator.Fprint(&buf, dFile): the whole file, declaration by declaration
Fprint(dFile) ==
    IF dFile = <<>> THEN <<>>
    ELSE PrintDecl(Head(dFile)) \o Fprint(Tail(dFile))

\* the parser and dec.DecorateFile: text back to declarations
ParseLoop(text, i, acc) ==
    IF i > Len(text) THEN acc
    ELSE LET l == text[i]
             n == Len(acc)
         IN  CASE l.k = "decl" ->
                    ParseLoop(text, i + 1,
                        Append(acc, GenDecl(l.tok, l.name, l.doc,
                                            StructType(l.opening, <<>>))))
               [] l.k = "field" ->
                    ParseLoop(text, i + 1,
                        [acc EXCEPT ![n].node.list =
                            Append(@, Field(l.names, l.typ))])
               [] OTHER -> ParseLoop(text, i + 1, acc)

DecorateFile(text) == ParseLoop(text, 1, <<>>)

RECURSIVE FieldTypesOf(_)

\* the *types.Struct of a struct node: one field per name, one per embedded
\* field, in declared order
FieldTypesOf(list) ==
    IF list = <<>> THEN <<>>
    ELSE LET f == Head(list)
             n == IF Len(f.names) = 0 THEN 1 ELSE Len(f.names)
         IN  [i \in 1..n |-> f.typ] \o FieldTypesOf(Tail(list))

RECURSIVE FieldNamesOf(_)

\* the field names of a struct node in declared order (0: an embedded field)
FieldNamesOf(list) ==
    IF list = <<>> THEN <<>>
    ELSE LET f == Head(list)
         IN  (IF Len(f.names) = 0 THEN <<0>> ELSE f.names)
             \o FieldNamesOf(Tail(list))

---------------------------------------------------------------------------
(* betteralign: the per-struct engine *)

hasIgnoreComment(node) ==
    \E i \in 1..Len(node.opening) :
        node.opening[i].line /\ node.opening[i].marker

declaredWithOptInComment(decl) ==
    IF decl.doc = <<>> THEN FALSE
    ELSE \E i \in 1..Len(decl.doc) : decl.doc[i].marker

NoMessage == [kind |-> "", delta |-> 0, cur |-> 0, opt |-> 0]

\* a message for size differences only
MessageSizeOnly(sz, optsz, ptrs, optptrs) ==
    IF sz # optsz
    THEN [kind |-> "size", delta |-> sz - optsz, cur |-> sz, opt |-> optsz]
    ELSE NoMessage

\* a message that looks at the pointer extent first
MessagePointerFirst(sz, optsz, ptrs, optptrs) ==
    IF ptrs # optptrs
    THEN [kind |-> "pointer bytes", delta |-> ptrs - optptrs,
          cur |-> ptrs, opt |-> optptrs]
    ELSE IF sz # optsz
    THEN [kind |-> "size", delta |-> sz - optsz, cur |-> sz, opt |-> optsz]
    ELSE NoMessage

\* the message betteralign builds from the four measurements
Message(sz, optsz, ptrs, optptrs) ==
    IF sz # optsz
    THEN [kind |-> "size", delta |-> sz - optsz, cur |-> sz, opt |-> optsz]
    ELSE IF ptrs # optptrs
    THEN [kind |-> "pointer bytes", delta |-> ptrs - optptrs,
          cur |-> ptrs, opt |-> optptrs]
    ELSE NoMessage

RECURSIVE Flatten(_, _)

\* flat: each dst.Field followed by one dummy per further name; an entry is
\* the position of the field in Fields.List, 0 for the dummy
Flatten(list, k) ==
    IF k > Len(list) THEN <<>>
    ELSE LET f == list[k]
             dummies == IF Len(f.names) = 0 THEN <<>>
                        ELSE [i \in 1..(Len(f.names) - 1) |-> 0]
         IN  (<<k>> \o dummies) \o Flatten(list, k + 1)

\* "if f == dummy { continue }"
NotDummy(x) == x # 0

\* the fields picked from flat, dummies dropped
Kept(flat, indexes) ==
    SelectSeq([i \in 1..Len(indexes) |-> flat[indexes[i]]], NotDummy)

\* the fields of list left in their declared order
PickDeclared(list, kept) == list

\* the fields of list at the positions kept
Pick(list, kept) == [i \in 1..Len(kept) |-> list[kept[i]]]

\* reordered: flat taken in the order of indexes, dummies dropped
Reordered(list, indexes) == Pick(list, Kept(Flatten(list, 1), indexes))

\* betteralign once message is built: the early returns ("already optimal",
\* hasIgnoreComment), else the reordered Fields.List and the report
Decide(typ, dNode, oo, sz, optsz, ptrs, optptrs, message, reports) ==
    [typ |-> typ, optimal |-> oo.optimal, indexes |-> oo.indexes,
     sz |-> sz, optsz |-> optsz, ptrs |-> ptrs, optptrs |-> optptrs,
     message |-> message, report |-> reports,
     list |-> IF reports THEN Reordered(dNode.list, oo.indexes)
              ELSE dNode.list]

\* whether betteralign gets past its two early returns
\* a report for every struct that is not optimal
ReportsUnlessOptimal(message, dNode) == message # NoMessage

Reports(message, dNode) == message # NoMessage /\ ~hasIgnoreComment(dNode)

\* betteralign once the four measurements are taken
Measured(typ, dNode, oo, sz, optsz, ptrs, optptrs) ==
    Decide(typ, dNode, oo, sz, optsz, ptrs, optptrs,
           Message(sz, optsz, ptrs, optptrs),
           Reports(Message(sz, optsz, ptrs, optptrs), dNode))

\* betteralign once optimalOrder has returned
Ordered(typ, dNode, s, oo) ==
    Measured(typ, dNode, oo,
             StructSizeof(typ, s), StructSizeof(oo.optimal, s),
             StructPtrdata(typ, s), StructPtrdata(oo.optimal, s))

\* betteralign up to its side effects: the locals it computes, whether it
\* reports, and the Fields.List it leaves in the tree
betteralign(typ, dNode, s) == Ordered(typ, dNode, s, optimalOrder(typ, s))

NoCall ==
    [typ |-> <<>>, optimal |-> <<>>, indexes |-> <<>>, sz |-> 0, optsz |-> 0,
     ptrs |-> 0, optptrs |-> 0, message |-> NoMessage, report |-> FALSE,
     list |-> <<>>]

\* a tree that carries the new Fields.List of declaration d and the declared
\* order of every other struct of file f
WithListOnly(f, d, list) == [prog[f] EXCEPT ![d].node.list = list]

\* the tree of file f with the Fields.List of declaration d replaced
WithList(f, d, list) == [dst[f] EXCEPT ![d].node.list = list]

\* the side effects of betteralign, r being what it computed: the tree is
\* changed, the file printed, the diagnostic reported, the buffer stored
Commit(f, d, r) ==
    /\ last' = r
    /\ IF r.report
       THEN /\ dst' = [dst EXCEPT ![f] = WithList(f, d, r.list)]
            /\ diagnostics' = Append(diagnostics,
                   [file |-> f, decl |-> d, message |-> r.message])
            /\ applyFixesFset' =
                   [applyFixesFset EXCEPT
                       ![f] = [set |-> TRUE,
                               buf |-> Fprint(WithList(f, d, r.list))]]
       ELSE UNCHANGED <<dst, diagnostics, applyFixesFset>>

\* the call betteralign(pass, s, typ, dec, dFile, applyFixesFset, fn) for
\* declaration d of file f
CallBetteralign(f, d) ==
    Commit(f, d, betteralign(FieldTypesOf(prog[f][d].node.list),
                             dst[f][d].node, sizes))

---------------------------------------------------------------------------
(* The inputs the specifications draw from *)

\* pass.TypesSizes: wordSize = Sizeof(unsafe.Pointer), maxAlign =
\* Alignof(unsafe.Pointer), which agree on the gc ports (386/arm, amd64/arm64)
Platforms ==
    {[WordSize |-> 4, MaxAlign |-> 4], [WordSize |-> 8, MaxAlign |-> 8]}

\* field types of the structs of the per-record specification
RecordTypes ==
    {"bool", "int32", "int64", "*int", "string", "[]*string", "[0]func()"}

\* types that appear as embedded fields (a type is embedded at most once)
EmbeddedTypes == {"Good"}

\* Fields.Decs.Opening of the structs drawn: nothing, the ignore marker in a
\* line comment, the marker in a block comment
Openings ==
    {<<>>, <<Comment(TRUE, TRUE)>>, <<Comment(FALSE, TRUE)>>}

RECURSIVE BuildList(_, _, _, _)

\* the Fields.List with field types ts where every position in joined shares
\* the declaration of the position before it (i1, i2 int)
BuildList(ts, joined, i, acc) ==
    IF i > Len(ts) THEN acc
    ELSE IF i \in joined
    THEN BuildList(ts, joined, i + 1,
                   [acc EXCEPT ![Len(acc)].names = Append(@, i)])
    ELSE BuildList(ts, joined, i + 1,
                   Append(acc, Field(IF ts[i] \in EmbeddedTypes THEN <<>>
                                     ELSE <<i>>, ts[i])))

\* the field type sequences of length n (a type is embedded at most once)
TypeSeqs(n) ==
    {ts \in [1..n -> RecordTypes \cup EmbeddedTypes] :
        \A i, j \in 1..n :
            (ts[i] \in EmbeddedTypes /\ ts[i] = ts[j]) => i = j}

\* the positions of ts that may share the declaration of the one before
Joinable(ts) ==
    {i \in 2..Len(ts) : ts[i] = ts[i - 1] /\ ts[i] \notin EmbeddedTypes}

\* every well-formed Fields.List with n fields
ListsOfLen(n) ==
    UNION {{BuildList(ts, joined, 1, <<>>) : joined \in SUBSET Joinable(ts)} :
           ts \in TypeSeqs(n)}

AllLists == UNION {ListsOfLen(n) : n \in 0..MaxFields}

NoBuffer == [set |-> FALSE, buf |-> <<>>]

---------------------------------------------------------------------------
(* SpecRecord: one struct, analysed, rewritten and analysed again *)

InitRecord ==
    /\ sizes \in Platforms
    /\ goos = "linux"
    /\ flagApply = TRUE /\ flagFix = FALSE /\ fOptInMode = FALSE
    /\ fApply = TRUE
    /\ \E list \in AllLists, op \in Openings :
          prog = <<<<GenDecl("TYPE", "T", <<>>, StructType(op, list))>>>>
    /\ pc = "record"
    /\ ni = 0
    /\ strName = "T" /\ strOptedIn = FALSE
    /\ decorated = {1}
    /\ dst = prog
    /\ applyFixesFset = [f \in 1..1 |-> NoBuffer]
    /\ diagnostics = <<>>
    /\ last = NoCall
    /\ disk = [f \in 1..1 |-> Fprint(prog[f])]
    /\ fkind = [f \in 1..1 |-> "regular"]
    /\ tmp = <<>>
    /\ todo = {}
    /\ cur = 0
    /\ apc = ""
    /\ errs = <<>>
    /\ ty = NoType
    /\ layout = NoLayout

\* TestSuggestions: the analyzer on the struct as written
AnalyzeRecord ==
    /\ pc = "record"
    /\ CallBetteralign(1, 1)
    /\ pc' = "analyzed"
    /\ UNCHANGED <<ty, layout,
                   sizes, goos, flagApply, flagFix, fOptInMode, fApply, prog,
                   ni, strName, strOptedIn, decorated, disk, fkind, tmp, todo,
                   cur, apc, errs>>

\* TestApply: the staged buffer replaces the file, which is parsed again
RewriteRecord ==
    /\ pc = "analyzed"
    /\ applyFixesFset[1].set
    /\ disk' = [disk EXCEPT ![1] = applyFixesFset[1].buf]
    /\ prog' = <<DecorateFile(disk'[1])>>
    /\ dst' = prog'
    /\ applyFixesFset' = [f \in 1..1 |-> NoBuffer]
    /\ pc' = "rewritten"
    /\ UNCHANGED <<ty, layout,
                   sizes, goos, flagApply, flagFix, fOptInMode, fApply, ni,
                   strName, strOptedIn, decorated, diagnostics, last, fkind,
                   tmp, todo, cur, apc, errs>>

\* the analyzer on the rewritten struct
ReanalyzeRecord ==
    /\ pc = "rewritten"
    /\ CallBetteralign(1, 1)
    /\ pc' = "reanalyzed"
    /\ UNCHANGED <<ty, layout,
                   sizes, goos, flagApply, flagFix, fOptInMode, fApply, prog,
                   ni, strName, strOptedIn, decorated, disk, fkind, tmp, todo,
                   cur, apc, errs>>

NextRecord == AnalyzeRecord \/ RewriteRecord \/ ReanalyzeRecord

SpecRecord == InitRecord /\ [][NextRecord]_vars


---------------------------------------------------------------------------
(* Spec: run() over the files of a package, then the apply loop *)

\* the struct bodies of the declarations drawn
SizeBad   == <<Field(<<1>>, "bool"), Field(<<2>>, "int64"), Field(<<3>>, "bool")>>
PointerBad == <<Field(<<1>>, "string"), Field(<<2, 3>>, "*int")>>
Sorted    == <<Field(<<1>>, "int64"), Field(<<2>>, "bool")>>

\* the declarations drawn, without their names: a type declaration, one with
\* the opt-in comment, a variable of struct type, a struct with the ignore
\* comment, a sorted struct under a comment without marker, and a struct with
\* the ignore marker in a block comment
DeclShapes ==
    {[tok |-> "TYPE", doc |-> <<>>, opening |-> <<>>, list |-> SizeBad],
     [tok |-> "TYPE", doc |-> <<Comment(TRUE, TRUE)>>, opening |-> <<>>,
      list |-> SizeBad],
     [tok |-> "VAR", doc |-> <<>>, opening |-> <<>>, list |-> SizeBad],
     [tok |-> "TYPE", doc |-> <<>>, opening |-> <<Comment(TRUE, TRUE)>>,
      list |-> SizeBad],
     [tok |-> "TYPE", doc |-> <<Comment(TRUE, FALSE)>>, opening |-> <<>>,
      list |-> Sorted],
     [tok |-> "TYPE", doc |-> <<>>, opening |-> <<Comment(FALSE, TRUE)>>,
      list |-> PointerBad]}

\* the k-th declared name of the package
NameOf(k) == <<"T1", "T2", "T3", "T4">>[k]

\* the declarations shapes[from..to], named by their position in the package
DeclsFrom(shapes, from, to) ==
    [i \in 1..(to - from + 1) |->
        GenDecl(shapes[from + i - 1].tok, NameOf(from + i - 1),
                shapes[from + i - 1].doc,
                StructType(shapes[from + i - 1].opening,
                           shapes[from + i - 1].list))]

\* the packages of at most MaxDecls declarations in one or two files (the
\* first j declarations in the first file)
Packages ==
    UNION {UNION {{IF j = k THEN <<DeclsFrom(shapes, 1, k)>>
                   ELSE <<DeclsFrom(shapes, 1, j), DeclsFrom(shapes, j + 1, k)>> :
                   j \in 1..k} :
                  shapes \in [1..k -> DeclShapes]} :
           k \in 1..MaxDecls}

\* what is under the file name when the fixes are applied: a regular file, a
\* symbolic link to a regular file, a directory or device, nothing
FileKinds == {"regular", "symlink", "irregular", "missing"}

RECURSIVE NodesOfDecls(_, _, _)

NodesOfDecls(f, d, n) ==
    IF d > n THEN <<>>
    ELSE <<[kind |-> "GenDecl", f |-> f, d |-> d],
           [kind |-> "StructType", f |-> f, d |-> d]>>
         \o NodesOfDecls(f, d + 1, n)

RECURSIVE NodesOfFiles(_, _)

\* the nodes inspect.Preorder hands to the callback under nodeFilter: per
\* file the File, then per declaration the GenDecl and the StructType in it
NodesOfFiles(p, f) ==
    IF f > Len(p) THEN <<>>
    ELSE <<[kind |-> "File", f |-> f, d |-> 0]>>
         \o NodesOfDecls(f, 1, Len(p[f]))
         \o NodesOfFiles(p, f + 1)

Nodes == NodesOfFiles(prog, 1)

\* the flags and the package do not change during a run
runInputs == <<sizes, goos, flagApply, flagFix, fOptInMode, prog, ty, layout>>

\* the locals of run() that the callback reads and writes
walkVars ==
    <<strName, strOptedIn, decorated, dst, applyFixesFset, diagnostics, last>>

\* the files and the position of the apply loop
applyVars == <<disk, fkind, tmp, todo, cur, apc, errs>>

Init ==
    /\ sizes = [WordSize |-> 8, MaxAlign |-> 8]
    /\ goos \in {"linux", "windows"}
    /\ flagApply \in BOOLEAN
    /\ flagFix \in BOOLEAN
    /\ fOptInMode \in BOOLEAN
    /\ fApply = flagApply
    /\ prog \in Packages
    /\ pc = "start"
    /\ ni = 0
    /\ strName = "" /\ strOptedIn = FALSE
    /\ decorated = {}
    /\ dst = [f \in DOMAIN prog |-> <<>>]
    /\ applyFixesFset = [f \in DOMAIN prog |-> NoBuffer]
    /\ diagnostics = <<>>
    /\ last = NoCall
    /\ disk = [f \in DOMAIN prog |-> Fprint(prog[f])]
    /\ fkind = [f \in DOMAIN prog |-> "regular"]
    /\ tmp = <<>>
    /\ todo = {}
    /\ cur = 0
    /\ apc = ""
    /\ errs = <<>>
    /\ ty = NoType
    /\ layout = NoLayout

\* run: the "fix" flag of the analyzer turns fApply on
RunStart ==
    /\ pc = "start"
    /\ fApply' = IF flagFix THEN TRUE ELSE fApply
    /\ pc' = "walk"
    /\ UNCHANGED <<runInputs, ni, walkVars, applyVars>>

\* the callback on an *ast.File: aFile = f, dFile = dec.DecorateFile(aFile)
VisitFile ==
    /\ pc = "walk" /\ ni < Len(Nodes)
    /\ Nodes[ni + 1].kind = "File"
    /\ decorated' = decorated \cup {Nodes[ni + 1].f}
    /\ dst' = [dst EXCEPT ![Nodes[ni + 1].f] = prog[Nodes[ni + 1].f]]
    /\ ni' = ni + 1
    /\ UNCHANGED <<runInputs, fApply, pc, strName, strOptedIn, applyFixesFset,
                   diagnostics, last, applyVars>>

\* the callback on an *ast.GenDecl: only a type declaration sets strName and
\* strOptedIn
VisitGenDecl ==
    /\ pc = "walk" /\ ni < Len(Nodes)
    /\ Nodes[ni + 1].kind = "GenDecl"
    /\ LET g == prog[Nodes[ni + 1].f][Nodes[ni + 1].d]
       IN  IF g.tok = "TYPE"
           THEN /\ strName' = g.name
                /\ strOptedIn' = declaredWithOptInComment(g)
           ELSE UNCHANGED <<strName, strOptedIn>>
    /\ ni' = ni + 1
    /\ UNCHANGED <<runInputs, fApply, pc, decorated, dst, applyFixesFset,
                   diagnostics, last, applyVars>>

\* the callback on an *ast.StructType
VisitStructType ==
    /\ pc = "walk" /\ ni < Len(Nodes)
    /\ Nodes[ni + 1].kind = "StructType"
    /\ IF strName = "" \/ (fOptInMode /\ ~strOptedIn)
       THEN UNCHANGED <<dst, applyFixesFset, diagnostics, last>>
       ELSE CallBetteralign(Nodes[ni + 1].f, Nodes[ni + 1].d)
    /\ ni' = ni + 1
    /\ UNCHANGED <<runInputs, fApply, pc, strName, strOptedIn, decorated,
                   applyVars>>

\* a run that always goes on to the apply loop
NeverSkipApply(apply) == FALSE

\* "if !fApply { return nil, nil }"
SkipApply(apply) == ~apply

\* a traversal that may return before it has called back on every node
ReturnsEarly(i, nodes) == TRUE

\* inspect.Preorder returns when the callback has run on every node
PreorderReturns(i, nodes) == i = Len(nodes)

\* Preorder has returned
EndTraversal ==
    /\ pc = "walk" /\ PreorderReturns(ni, Nodes)
    /\ IF SkipApply(fApply)
       THEN pc' = "done" /\ todo' = {}
       ELSE /\ pc' = "apply"
            /\ todo' = {f \in DOMAIN prog : applyFixesFset[f].set}
    /\ UNCHANGED <<runInputs, fApply, ni, walkVars, disk, fkind, tmp, cur,
                   apc, errs>>

\* a range loop that ends at the first error
NoneRemaining(files, f) == {}

\* the range loop of run goes on after applyToFile has returned for f, with
\* an error or without
Remaining(files, f) == files \ {f}

\* os.Stat returns an error
StatFails(k) == k = "missing"

\* st.Mode().IsRegular() of the os.Stat result: os.Stat follows a symbolic
\* link and describes the file it points to
IsRegular(k) == k \in {"regular", "symlink"}

\* applyToFile on the next file of the map, up to the stat checks
ApplyToFile ==
    /\ pc = "apply" /\ cur = 0
    /\ \E f \in todo, k \in FileKinds :
          /\ fkind' = [fkind EXCEPT ![f] = k]
          /\ CASE StatFails(k) ->
                    /\ errs' = Append(errs, [file |-> f, err |-> "ErrStatFile"])
                    /\ todo' = Remaining(todo, f)
                    /\ UNCHANGED <<cur, apc>>
               [] ~StatFails(k) /\ ~IsRegular(k) ->
                    /\ errs' = Append(errs,
                                      [file |-> f, err |-> "ErrNotRegularFile"])
                    /\ todo' = Remaining(todo, f)
                    /\ UNCHANGED <<cur, apc>>
               [] OTHER ->
                    /\ cur' = f /\ apc' = "open"
                    /\ UNCHANGED <<errs, todo>>
    /\ UNCHANGED <<runInputs, fApply, pc, ni, walkVars, disk, tmp>>

\* a write in place on every platform
NeverAtomic(os) == FALSE

\* maybe.WriteFile replaces the file by a rename (renameio.WriteFile) except
\* on Windows, where it is os.WriteFile
Atomic(os) == os # "windows"

\* the temporary file is created next to the target, or the target is opened
\* with O_TRUNC
OpenTarget ==
    /\ pc = "apply" /\ cur # 0 /\ apc = "open"
    /\ IF Atomic(goos)
       THEN tmp' = <<>> /\ UNCHANGED disk
       ELSE disk' = [disk EXCEPT ![cur] = <<>>] /\ UNCHANGED tmp
    /\ apc' = "write"
    /\ UNCHANGED <<runInputs, fApply, pc, ni, walkVars, fkind, todo, cur, errs>>

\* the file being written
Written == IF Atomic(goos) THEN tmp ELSE disk[cur]

\* how far a write call may take a file of n lines that holds m of them
WriteMarks(m, n) == {k \in {n \div 2, n} : k > m}

\* one write call: the buffer up to line n is in the file
WriteChunk ==
    /\ pc = "apply" /\ cur # 0 /\ apc = "write"
    /\ \E n \in WriteMarks(Len(Written), Len(applyFixesFset[cur].buf)) :
          /\ IF Atomic(goos)
             THEN /\ tmp' = SubSeq(applyFixesFset[cur].buf, 1, n)
                  /\ UNCHANGED disk
             ELSE /\ disk' = [disk EXCEPT
                                 ![cur] = SubSeq(applyFixesFset[cur].buf, 1, n)]
                  /\ UNCHANGED tmp
          /\ apc' = IF n = Len(applyFixesFset[cur].buf) THEN "close" ELSE "write"
    /\ UNCHANGED <<runInputs, fApply, pc, ni, walkVars, fkind, todo, cur, errs>>

\* the temporary file is renamed over the target (a symbolic link under the
\* name is replaced by the file), or the target is closed
CloseTarget ==
    /\ pc = "apply" /\ cur # 0 /\ apc = "close"
    /\ IF Atomic(goos)
       THEN /\ disk' = [disk EXCEPT ![cur] = tmp]
            /\ tmp' = <<>>
            /\ fkind' = [fkind EXCEPT ![cur] = "regular"]
       ELSE UNCHANGED <<disk, tmp, fkind>>
    /\ todo' = Remaining(todo, cur)
    /\ cur' = 0 /\ apc' = ""
    /\ UNCHANGED <<runInputs, fApply, pc, ni, walkVars, errs>>

\* maybe.WriteFile returns an error: the temporary file is removed, or the
\* target stays as far as it was written
WriteFails ==
    /\ pc = "apply" /\ cur # 0
    /\ IF Atomic(goos) THEN tmp' = <<>> ELSE UNCHANGED tmp
    /\ errs' = Append(errs, [file |-> cur, err |-> "ErrWriteFile"])
    /\ todo' = Remaining(todo, cur)
    /\ cur' = 0 /\ apc' = ""
    /\ UNCHANGED <<runInputs, fApply, pc, ni, walkVars, disk, fkind>>

\* the process is killed during the apply loop
Crash ==
    /\ pc = "apply"
    /\ pc' = "crashed"
    /\ UNCHANGED <<runInputs, fApply, ni, walkVars, applyVars>>

\* the apply loop has gone through the map
FinishRun ==
    /\ pc = "apply" /\ cur = 0 /\ todo = {}
    /\ pc' = "done"
    /\ UNCHANGED <<runInputs, fApply, ni, walkVars, applyVars>>

Next ==
    \/ RunStart
    \/ VisitFile
    \/ VisitGenDecl
    \/ VisitStructType
    \/ EndTraversal
    \/ ApplyToFile
    \/ OpenTarget
    \/ WriteChunk
    \/ CloseTarget
    \/ WriteFails
    \/ Crash
    \/ FinishRun

Spec == Init /\ [][Next]_vars

---------------------------------------------------------------------------
(* SpecLayout: Alignof, Sizeof and ptrdata on one type, from the inside out *)

\* the field types and the one shape outside the type switches
LeafTypes ==
    {"bool", "byte", "int16", "int32", "uint32", "int64", "uint64", "float32",
     "complex128", "int", "uintptr", "string", "unsafe.Pointer", "*int",
     "func()", "map", "chan", "[]*string", "any", "[0]func()", "[0]byte",
     "[3]bool", "[2]uintptr", "[2]*int", "s", "Good", "pq", "pq2", "[2]pq",
     "ZeroLast", "(int, error)"}

\* the huge array lengths, in units of 2^56: 2^60 elements
HugeTops == {16}

\* array lengths: 0..MaxLen and, where the int of the target has 64 bits,
\* the huge ones
ArrayLens(s) ==
    {Small(n) : n \in 0..MaxLen}
        \cup (IF s.WordSize = 8 THEN {I64(t, 0) : t \in HugeTops} ELSE {})

\* the fields declared before and after the nested one in a struct
FieldsBefore == {<<>>, <<"bool">>, <<"*int">>}
FieldsAfter == {<<>>, <<"bool">>, <<"[0]byte">>}

\* the three results are int64 values that the model's small integers hold
InRange(l) == l.sz.top = 0 /\ l.fp.top = 0 /\ l.sz.low >= 0 /\ l.fp.low >= 0

InitLayout ==
    /\ sizes \in Platforms
    /\ goos = "linux"
    /\ flagApply = FALSE /\ flagFix = FALSE /\ fOptInMode = FALSE
    /\ fApply = FALSE
    /\ prog = <<>>
    /\ pc = "layout"
    /\ ni = 0
    /\ strName = "" /\ strOptedIn = FALSE
    /\ decorated = {}
    /\ dst = <<>>
    /\ applyFixesFset = <<>>
    /\ diagnostics = <<>>
    /\ last = NoCall
    /\ disk = <<>>
    /\ fkind = <<>>
    /\ tmp = <<>>
    /\ todo = {}
    /\ cur = 0
    /\ apc = ""
    /\ errs = <<>>
    /\ \E T \in LeafTypes : ty = Nested(T, <<>>)
    /\ layout = NoLayout

\* the variables that neither the layout functions nor optimalOrder touch
restVars ==
    <<sizes, goos, flagApply, flagFix, fOptInMode, fApply, prog, ni, strName,
      strOptedIn, decorated, dst, applyFixesFset, diagnostics, disk, fkind,
      tmp, todo, cur, apc, errs>>

\* s.Alignof(T), s.Sizeof(T), s.ptrdata(T) on a field type
MeasureLeaf ==
    /\ pc = "layout"
    /\ layout' = LayoutOfLeaf(ty.leaf, sizes)
    /\ pc' = "measured"
    /\ UNCHANGED <<ty, last, restVars>>

\* the three functions on [n]T, T being the type measured so far: their
\* array cases return from the results for T
MeasureArray ==
    /\ pc = "measured"
    /\ Len(ty.wraps) < MaxDepth
    /\ InRange(layout)
    /\ \E n \in ArrayLens(sizes) :
          /\ ty' = Nested(ty.leaf, Append(ty.wraps, ArrayAround(n)))
          /\ layout' = LayoutOfArray(n, layout)
    /\ UNCHANGED <<pc, last, restVars>>

\* the three functions on a struct that has T among its fields: their struct
\* cases return from the results for the fields
MeasureStruct ==
    /\ pc = "measured"
    /\ Len(ty.wraps) < MaxDepth
    /\ InRange(layout)
    /\ \E before \in FieldsBefore, after \in FieldsAfter :
          /\ ty' = Nested(ty.leaf,
                          Append(ty.wraps, StructAround(before, after)))
          /\ layout' = LayoutOfStruct(before, layout, after, sizes)
    /\ UNCHANGED <<pc, last, restVars>>

NextLayout == MeasureLeaf \/ MeasureArray \/ MeasureStruct

SpecLayout == InitLayout /\ [][NextLayout]_vars

---------------------------------------------------------------------------
(* SpecSolver: optimalOrder on a struct, then on the struct it returned *)

\* the locals of a call optimalOrder(str, sizes) that returned oo
Solved(str, oo) ==
    [NoCall EXCEPT !.typ = str, !.optimal = oo.optimal,
                   !.indexes = oo.indexes]

\* optimal, indexes := optimalOrder(str, sizes)
OptimalOrderOn(str, s) == Solved(str, optimalOrder(str, s))

InitSolver ==
    /\ sizes \in Platforms
    /\ goos = "linux"
    /\ flagApply = FALSE /\ flagFix = FALSE /\ fOptInMode = FALSE
    /\ fApply = FALSE
    /\ \E n \in 0..MaxFields :
          \E ts \in TypeSeqs(n) :
              prog = <<<<GenDecl("TYPE", "T", <<>>,
                                 StructType(<<>>, BuildList(ts, {}, 1, <<>>)))>>>>
    /\ pc = "solver"
    /\ ni = 0
    /\ strName = "T" /\ strOptedIn = FALSE
    /\ decorated = {1}
    /\ dst = prog
    /\ applyFixesFset = [f \in 1..1 |-> NoBuffer]
    /\ diagnostics = <<>>
    /\ last = NoCall
    /\ disk = [f \in 1..1 |-> Fprint(prog[f])]
    /\ fkind = [f \in 1..1 |-> "regular"]
    /\ tmp = <<>>
    /\ todo = {}
    /\ cur = 0
    /\ apc = ""
    /\ errs = <<>>
    /\ ty = NoType
    /\ layout = NoLayout

\* betteralign's call of optimalOrder on the struct as declared
CallOptimalOrder ==
    /\ pc = "solver"
    /\ last' = OptimalOrderOn(FieldTypesOf(prog[1][1].node.list), sizes)
    /\ pc' = "ordered"
    /\ UNCHANGED <<ty, layout, restVars>>

\* optimalOrder on the struct the first call returned
CallOptimalOrderAgain ==
    /\ pc = "ordered"
    /\ last' = OptimalOrderOn(last.optimal, sizes)
    /\ pc' = "reordered"
    /\ UNCHANGED <<ty, layout, restVars>>

NextSolver == CallOptimalOrder \/ CallOptimalOrderAgain

SpecSolver == InitSolver /\ [][NextSolver]_vars

---------------------------------------------------------------------------
(* Properties of the solver and of the per-struct engine (SpecRecord) *)

\* the permutations of 1..n
PermsOf(n) == Permutations(1..n)

Permute(fs, p) == [i \in 1..Len(fs) |-> fs[p[i]]]

Identity(n) == [i \in 1..n |-> i]

\* the struct under analysis as the type checker sees it
TheStruct == FieldTypesOf(prog[1][1].node.list)

\* a betteralign call has returned
Analysed == pc \in {"analyzed", "reanalyzed"}

\* Alignof, Sizeof and ptrdata of a field do not depend on its position, so
\* the struct with its fields permuted by p is laid out from the fields'
\* measurements permuted by p

\* no permutation of the fields measured in m is smaller than optsz
SizeMinimalAmong(optsz, m) ==
    \A p \in PermsOf(Len(m)) : optsz <= SizeofFields(Permute(m, p))

\* C1: the arrangement optimalOrder returns is a permutation of the fields
\* whose size is no larger than the size of any permutation of them
C1_OptimalSizeIsMinimal ==
    Analysed =>
        /\ last.indexes \in PermsOf(Len(last.typ))
        /\ last.optimal = Permute(last.typ, last.indexes)
        /\ SizeMinimalAmong(StructSizeof(last.optimal, sizes),
                            FieldSizes(last.typ, sizes))

\* a struct of three or more fields whose declared order wastes space
C1_Witness ==
    /\ pc = "analyzed"
    /\ Len(last.typ) >= 3
    /\ StructSizeof(last.optimal, sizes) < StructSizeof(last.typ, sizes)

\* no permutation of size optsz of the fields measured in m has a smaller
\* pointer extent than optptrs
PtrdataMinimalAmong(optsz, optptrs, m) ==
    \A p \in PermsOf(Len(m)) :
        SizeofFields(Permute(m, p)) = optsz
            => optptrs <= PtrdataFields(Permute(m, p))

\* C2: among the permutations of minimal size, the arrangement optimalOrder
\* returns has the smallest pointer extent
C2_OptimalPtrdataIsMinimal ==
    Analysed =>
        PtrdataMinimalAmong(StructSizeof(last.optimal, sizes),
                            StructPtrdata(last.optimal, sizes),
                            FieldPtrs(last.typ, sizes))

\* a struct of minimal size whose declared order has the larger extent
C2_Witness ==
    /\ pc = "analyzed"
    /\ StructSizeof(last.typ, sizes) = StructSizeof(last.optimal, sizes)
    /\ StructPtrdata(last.optimal, sizes) < StructPtrdata(last.typ, sizes)

\* the struct carries the ignore marker where betteralign looks for it: in a
\* line comment after the opening brace
CarriesIgnore(node) ==
    \E i \in 1..Len(node.opening) :
        node.opening[i] = Comment(TRUE, TRUE)

\* betteralign measured a size or a pointer extent of the solver's
\* arrangement that differs from that of the declared order
Improvable(r) == r.sz # r.optsz \/ r.ptrs # r.optptrs

MessageFor(m, sz, optsz, ptrs, optptrs) ==
    /\ sz # optsz =>
           m = [kind |-> "size", delta |-> sz - optsz,
                cur |-> sz, opt |-> optsz]
    /\ sz = optsz =>
           /\ ptrs # optptrs
           /\ m = [kind |-> "pointer bytes", delta |-> ptrs - optptrs,
                   cur |-> ptrs, opt |-> optptrs]

\* C4: a diagnostic carries one message: the size message with delta =
\* current size - optimal size when the sizes differ (whatever the pointer
\* extents), the pointer-bytes message with delta = current extent - optimal
\* extent only when the sizes are equal
C4_MessageSelection ==
    (pc = "analyzed" /\ diagnostics # <<>>) =>
        /\ Len(diagnostics) = 1
        /\ MessageFor(diagnostics[1].message,
                      last.sz, last.optsz, last.ptrs, last.optptrs)

\* the size message for a struct whose pointer extent differs as well
C4_Witness ==
    /\ pc = "analyzed"
    /\ diagnostics # <<>>
    /\ diagnostics[1].message.kind = "size"
    /\ last.ptrs # last.optptrs

\* C7: the rewritten struct, analysed again, gets no diagnostic (the struct
\* types used as field types here are declared elsewhere and not rewritten)
C7_RewriteThenReanalyze ==
    pc = "reanalyzed" =>
        /\ ~last.report
        /\ last.message = NoMessage
        /\ Len(diagnostics) = 1

\* a rewritten struct of three or more fields has been analysed again
C7_Witness ==
    /\ pc = "reanalyzed"
    /\ Len(last.typ) >= 3
    /\ last.sz = last.optsz
    /\ last.ptrs = last.optptrs

\* the declarations of a Fields.List as a set
DeclsOf(list) == {list[i] : i \in 1..Len(list)}

\* C8: the rewritten declaration lists the field names in the order of the
\* solver's permutation, every declaration is kept whole (its names and its
\* type on one slot) and none is lost or duplicated
C8_MultiNameRewrite ==
    (pc = "analyzed" /\ last.report) =>
        LET old == prog[1][1].node.list
            new == dst[1][1].node.list
        IN  /\ FieldNamesOf(new) = Permute(FieldNamesOf(old), last.indexes)
            /\ FieldTypesOf(new) = last.optimal
            /\ Len(new) = Len(old)
            /\ DeclsOf(new) = DeclsOf(old)
            /\ applyFixesFset[1].buf = Fprint(<<[prog[1][1] EXCEPT !.node.list = new]>>)

\* a declaration of two names has moved
C8_Witness ==
    /\ pc = "analyzed"
    /\ last.report
    /\ \E i \in 1..Len(prog[1][1].node.list) :
          /\ Len(prog[1][1].node.list[i].names) = 2
          /\ dst[1][1].node.list[i] # prog[1][1].node.list[i]

---------------------------------------------------------------------------
(* Properties of the traversal and of the apply loop (Spec) *)

\* the declarations of the package: file and position in the file
DeclIds == {fd \in (DOMAIN prog) \X (1..MaxDecls) : fd[2] <= Len(prog[fd[1]])}

\* no diagnostic was reported for declaration d of file f
NotDiagnosed(f, d) ==
    \A i \in 1..Len(diagnostics) :
        ~(diagnostics[i].file = f /\ diagnostics[i].decl = d)

\* the content of file f before the run
Original(f) == Fprint(prog[f])

\* the struct of declaration d has its declared field order in the buffer
\* staged for file f
KeptInBuffer(f, d, staged) ==
    /\ Len(staged) = Len(prog[f])
    /\ staged[d].node.list = prog[f][d].node.list

C6_OptInRespected ==
    fOptInMode =>
        \A fd \in DeclIds :
            ~declaredWithOptInComment(prog[fd[1]][fd[2]]) =>
                /\ NotDiagnosed(fd[1], fd[2])
                /\ fd[1] \in decorated =>
                       dst[fd[1]][fd[2]].node.list
                           = prog[fd[1]][fd[2]].node.list

\* C9: with apply and fix off no file is written: every file holds what it
\* held before the run, whatever was reported and staged
C9_ReportOnlyWritesNothing ==
    (~flagApply /\ ~flagFix) =>
        /\ disk = [f \in DOMAIN prog |-> Original(f)]
        /\ tmp = <<>>
        /\ pc \notin {"apply", "crashed"}

\* a run with apply and fix off has ended with a diagnostic and a buffer
C9_Witness ==
    /\ ~flagApply /\ ~flagFix
    /\ pc = "done"
    /\ diagnostics # <<>>
    /\ \E f \in DOMAIN prog :
          applyFixesFset[f].set /\ applyFixesFset[f].buf # disk[f]

\* file f holds its complete original content or the complete buffer
Intact(f) ==
    \/ disk[f] = Original(f)
    \/ applyFixesFset[f].set /\ disk[f] = applyFixesFset[f].buf

\* C10 as stated: during the apply step, a crash included, every target
\* holds its complete original content or the complete replacement buffer
C10_TargetNeverPartial ==
    pc \in {"apply", "crashed", "done"} => \A f \in DOMAIN prog : Intact(f)

\* C10, amended: on every platform but Windows, during the apply step, a
\* crash included, every target holds its complete original content or the
\* complete replacement buffer
C10_TargetNeverPartialUnlessWindows ==
    (goos # "windows" /\ pc \in {"apply", "crashed", "done"}) =>
        \A f \in DOMAIN prog : Intact(f)

\* the process was killed after the temporary file was written and before it
\* was renamed
C10_Witness ==
    /\ goos = "linux"
    /\ pc = "crashed"
    /\ cur # 0 /\ apc = "close"
    /\ tmp = applyFixesFset[cur].buf
    /\ disk[cur] = Original(cur)
    /\ disk[cur] # applyFixesFset[cur].buf

\* file f had an error of kind e on stderr
Failed(f, e) ==
    \E i \in 1..Len(errs) : errs[i] = [file |-> f, err |-> e]

\* C11: a target that applyToFile finds not to be a regular file, a symbolic
\* link included, gets the not-a-regular-file error and is neither followed
\* nor overwritten
C11_NonRegularRefused ==
    \A f \in DOMAIN prog :
        fkind[f] \in {"symlink", "irregular"} =>
            /\ Failed(f, "ErrNotRegularFile")
            /\ cur # f
            /\ disk[f] = Original(f)

\* applyToFile returned an error for file f
Reported(f) ==
    \E e \in {"ErrStatFile", "ErrNotRegularFile", "ErrWriteFile"} : Failed(f, e)

\* C12: when the apply step has ended, every file with a pending buffer has
\* either been written or had its own error reported: an error on one file
\* keeps no other file from being written
C12_FailureDoesNotStopRun ==
    pc = "done" /\ fApply =>
        \A f \in DOMAIN prog :
            applyFixesFset[f].set =>
                Reported(f) \/ disk[f] = applyFixesFset[f].buf

\* one file failed and another one was rewritten in the same run
C12_Witness ==
    /\ pc = "done" /\ fApply
    /\ \E f, g \in DOMAIN prog :
          /\ f # g
          /\ applyFixesFset[f].set /\ Reported(f)
          /\ applyFixesFset[g].set /\ ~Reported(g)
          /\ disk[g] = applyFixesFset[g].buf
          /\ disk[g] # Original(g)

\* the solver's arrangement of the struct of declaration g
SolverOrder(g) == optimalOrder(FieldTypesOf(g.node.list), sizes)

\* size or pointer extent of the declared struct differs from that of the
\* solver's arrangement
LayoutImprovable(g) ==
    \/ StructSizeof(FieldTypesOf(g.node.list), sizes)
           # StructSizeof(SolverOrder(g).optimal, sizes)
    \/ StructPtrdata(FieldTypesOf(g.node.list), sizes)
           # StructPtrdata(SolverOrder(g).optimal, sizes)

\* the declaration with its fields in the solver's order
Rewritten(g) ==
    [g EXCEPT !.node.list = Reordered(g.node.list, SolverOrder(g).indexes)]

\* the tree of file f with every struct that got a diagnostic reordered and
\* every other struct as declared
TreeWithAllFixes(f) ==
    [d \in 1..Len(prog[f]) |->
        IF NotDiagnosed(f, d) THEN prog[f][d] ELSE Rewritten(prog[f][d])]

\* Preorder has returned and the apply loop has not begun
AfterTraversal == pc = "walk" /\ ni = Len(Nodes)

ApplyBegun ==
    \/ pc \in {"apply", "crashed"}
    \/ cur # 0 \/ tmp # <<>> \/ errs # <<>>
    \/ \E f \in DOMAIN prog : disk[f] # Original(f) \/ fkind[f] # "regular"

\* C19: applyToFile is not called and no file is changed before the
\* traversal has visited every node of every file, and no diagnostic is
\* reported once the apply loop has started
C19_WritesFollowTraversal ==
    /\ [](ApplyBegun => ni = Len(Nodes) /\ decorated = DOMAIN prog)
    /\ [][ApplyBegun => diagnostics' = diagnostics]_vars

\* a run over two files that reported for both and has rewritten one of them
C19_Witness ==
    /\ ni = Len(Nodes)
    /\ Len(prog) = 2
    /\ \A f \in DOMAIN prog : ~NotDiagnosed(f, 1)
    /\ \E f \in DOMAIN prog :
          /\ disk[f] # Original(f)
          /\ disk[f] = applyFixesFset[f].buf

---------------------------------------------------------------------------
(* Properties of optimalOrder (SpecSolver) *)

\* C13: optimalOrder on a record whose fields are in the order optimalOrder
\* produced returns the identity permutation
C13_OptimalOrderIdempotent ==
    pc = "reordered" =>
        /\ last.typ \in {Permute(FieldTypesOf(prog[1][1].node.list), p) :
                            p \in PermsOf(Len(last.typ))}
        /\ last.indexes = Identity(Len(last.typ))
        /\ last.optimal = last.typ

\* the first call moved a field of the record, and the second call moves none
C13_Witness ==
    /\ pc = "reordered"
    /\ last.typ # FieldTypesOf(prog[1][1].node.list)
    /\ last.indexes = Identity(Len(last.typ))

\* the five sort keys of an element, smaller first in each position
SortKey(e) ==
    <<IF e.sizeof = 0 THEN 0 ELSE 1,
      0 - e.alignof,
      IF e.ptrdata # 0 THEN 0 ELSE 1,
      IF e.ptrdata # 0 THEN e.sizeof - e.ptrdata ELSE 0,
      0 - e.sizeof>>

\* key a comes before key b in the order of the keys
KeyBefore(a, b) ==
    \E k \in 1..5 : a[k] < b[k] /\ \A j \in 1..(k - 1) : a[j] = b[j]

\* the elements es taken in the order idx are sorted by the keys, and
\* elements with equal keys are in their original order
StablySorted(es, idx) ==
    \A i, j \in 1..Len(idx) :
        i < j =>
            /\ ~KeyBefore(SortKey(es[idx[j]]), SortKey(es[idx[i]]))
            /\ SortKey(es[idx[i]]) = SortKey(es[idx[j]]) => idx[i] < idx[j]

\* C15: the order optimalOrder returns is the stable sort of the fields by:
\* zero-sized first, larger alignment first, pointer-bearing first, fewer
\* trailing non-pointer bytes first among pointer-bearing fields, larger size
\* first; fields equal on all keys keep their original relative order
C15_StableSortByKeys ==
    pc \in {"ordered", "reordered"} =>
        /\ last.indexes \in PermsOf(Len(last.typ))
        /\ last.optimal = Permute(last.typ, last.indexes)
        /\ StablySorted(Elems(last.typ, sizes), last.indexes)

\* a record where the sort moved a field and left two fields with equal keys
\* in their original order
C15_Witness ==
    /\ pc = "ordered"
    /\ last.indexes # Identity(Len(last.typ))
    /\ StablySorted(Elems(last.typ, sizes), last.indexes)
    /\ \E i, j \in 1..Len(last.typ) :
          /\ i < j
          /\ SortKey(Elems(last.typ, sizes)[i]) = SortKey(Elems(last.typ, sizes)[j])

---------------------------------------------------------------------------
(* Properties of the layout functions (SpecLayout) *)

\* the layout functions have returned for ty
Returned == pc = "measured"

\* C14: for every type the pointer extent is at least 0 and at most the size
C14_PtrdataWithinSizeof ==
    (Returned /\ ~layout.panics) =>
        /\ Leq64(Small(0), layout.fp)
        /\ Leq64(layout.fp, layout.sz)

\* x = y as int64 values
Eq64(x, y) == Leq64(x, y) /\ Leq64(y, x)

\* the type measured last is an array type written [n]T, and ptrdata returned
\* for it
IsArray(t, l) ==
    /\ t.wraps # <<>>
    /\ t.wraps[Len(t.wraps)].kind = "Array"
    /\ ~l.panics

\* the length of the array type measured last
LenOf(t) == t.wraps[Len(t.wraps)].len

\* n * z - z + a in int64
AllButLastPlus(n, z, a) == Add64(Mul64(n, z), Small(a - z))

\* the type measured is an array type among the field types
IsLeafArray(t) == t.wraps = <<>> /\ Underlying(t.leaf).kind = "Array"

\* length, element size and element pointer extent of such a type
LeafLen(t) == Small(Underlying(t.leaf).len)
LeafElemSize(t) == Sizeof(Underlying(t.leaf).elem, sizes)
LeafElemPtrdata(t) == ptrdata(Underlying(t.leaf).elem, sizes)

\* C16 as stated: ptrdata of an array of length 0 is 0, and ptrdata of an
\* array of length n >= 1 is (n-1) * Sizeof(Elem) + ptrdata(Elem), whatever
\* the element type
C16_ArrayPtrdataFormula ==
    /\ []((Returned /\ IsLeafArray(ty)) =>
            Eq64(layout.fp,
                 IF LeafLen(ty) = Small(0) THEN Small(0)
                 ELSE AllButLastPlus(LeafLen(ty), LeafElemSize(ty),
                                     LeafElemPtrdata(ty))))
    /\ [][(Returned /\ ty' # ty /\ IsArray(ty', layout')) =>
            Eq64(layout'.fp,
                 IF LenOf(ty') = Small(0) THEN Small(0)
                 ELSE AllButLastPlus(LenOf(ty'), layout.sz.low,
                                     layout.fp.low))]_vars

\* C16, with the pointer-free elements set apart: ptrdata of an array of
\* length 0 or of elements without pointers is 0, and ptrdata of an array of
\* length n >= 1 of elements with pointers is
\* (n-1) * Sizeof(Elem) + ptrdata(Elem) in int64
C16_ArrayPtrdataFormulaWithPointers ==
    /\ []((Returned /\ IsLeafArray(ty)) =>
            Eq64(layout.fp,
                 IF LeafLen(ty) = Small(0) \/ LeafElemPtrdata(ty) = 0
                 THEN Small(0)
                 ELSE AllButLastPlus(LeafLen(ty), LeafElemSize(ty),
                                     LeafElemPtrdata(ty))))
    /\ [][(Returned /\ ty' # ty /\ IsArray(ty', layout')) =>
            Eq64(layout'.fp,
                 IF LenOf(ty') = Small(0) \/ layout.fp.low = 0
                 THEN Small(0)
                 ELSE AllButLastPlus(LenOf(ty'), layout.sz.low,
                                     layout.fp.low))]_vars

\* an array of two structs that hold pointers followed by other bytes: the
\* pointer extent ends inside the second element
C16_Witness ==
    /\ Returned
    /\ Len(ty.wraps) = 2
    /\ ty.wraps[1].kind = "Struct"
    /\ IsArray(ty, layout)
    /\ LenOf(ty) = Small(2)
    /\ InRange(layout)
    /\ layout.fp.low > layout.sz.low \div 2
    /\ layout.fp.low < layout.sz.low

=============================================================================
